---- MODULE Spec2Model ----
(***************************************************************************)
(* The star ledger of SAVE-MORE-COMMUNITY: the stored procedures           *)
(* process_story_view (its three overloads) and process_post_view, run as  *)
(* concurrent READ COMMITTED transactions over user_profiles,              *)
(* user_storylines, story_views, story_transactions, wallet_history,       *)
(* view_transactions and user_notifications, together with the admin's     *)
(* handleSuspend / handleUnsuspend, and with what a signed-in client can    *)
(* write directly under the row policies of story_views and user_profiles. *)
(*                                                                         *)
(* A call is one transaction.  Each SQL statement that reads committed     *)
(* data or can block is one step.  A statement's writes are buffered in    *)
(* the session (tx[t].writes) and reach the tables when the function       *)
(* returns; an exception discards them.  An UPDATE takes the row lock and  *)
(* keeps it until the transaction ends, so the delta it buffers is applied *)
(* to the value the row has at commit.                                     *)
(***************************************************************************)
EXTENDS Integers, FiniteSets, Bags, TLC, Sequences

\* ---------------------------------------------------------------- bounds
MaxCalls == 2
MaxSuspends == 1
MaxStorylines == 2
MaxRequests == 2
MaxPosts == 2
MaxSelect == 2
MaxHeld == 4
MaxLikes == 2
MaxFetches == 2
MaxEffects == 5

\* ------------------------------------------------------ program constants
star_value == 500
MaxStarPrice == 5

\* ------------------------------------------------------------- the world
Accounts == {"a1", "a2"}
Stories == {"s1", "s2"}
Posts == {"p1"}
Sessions == {"t1", "t2"}
\* the story the admin moderates
Moderated == {"s1"}
NoOne == "none"

\* the star balances the accounts start with (bought outside the ledger)
InitStars == [a \in Accounts |-> IF a = "a1" THEN 3 ELSE 5]

\* user_profiles.username: the names users may pick, and the ones they start with
Names == {"ann", "bob", "cat"}
InitNames == [a \in Accounts |-> IF a = "a1" THEN "ann" ELSE "bob"]

\* user_storylines.user_id and posts.user_id: fixed when the row is created
story_owner == [s \in Stories |-> IF s = "s1" THEN "a1" ELSE "a2"]
post_owner == [p \in Posts |-> "a2"]

VARIABLES
  star_balance,        \* user_profiles.star_balance
  star_null,           \* the accounts whose star_balance IS NULL (the column is
                       \* nullable); their entry in star_balance stands for no value
  wallet_balance,      \* user_profiles.wallet_balance (NGN)
  total_earned,        \* user_profiles.total_earned (NGN)
  story_status,        \* user_storylines.status
  star_price,          \* user_storylines.star_price and posts.star_price
  view_count,          \* user_storylines.view_count
  story_views,         \* rows of story_views, UNIQUE(story_id, viewer_id)
  story_transactions,  \* bag of story_transactions rows
  wallet_history,      \* bag of wallet_history rows
  view_transactions,   \* bag of view_transactions rows
  post_views,          \* rows of post_views
  post_status,         \* posts.status
  user_notifications,  \* bag of user_notifications rows
  username,            \* user_profiles.username, UNIQUE
  is_online,           \* user_profiles.is_online
  tx,                  \* per session: the call in progress or last finished
  ncalls,              \* calls begun so far
  nmods,               \* suspensions so far
  starPrice,           \* CreateStoryline: the starPrice state of the form
  user_storylines,     \* rows of user_storylines inserted by clients
  payment_requests,    \* rows of payment_requests
  pr_access,           \* the command on payment_requests the policies let through last
  vip,                 \* user_profiles.vip of the author
  posts_table,         \* rows of posts inserted by CreatePost
  submit,              \* CreatePost.handleSubmit: where it is, what it has read
  posts,               \* Feed: the posts state
  fetch_calls,         \* fetchPosts calls the store has not answered yet
  fetches,             \* answers to fetchPosts on their way to the Feed
  post_events,         \* realtime INSERT events on posts not yet delivered
  mediaFiles,          \* CreatePost: the mediaFiles state
  rendered,            \* CreatePost: the mediaFiles the last render closed over
  post_likes,          \* the post_likes rows of post p1
  like_seq,            \* how many post_likes rows have been inserted
  postLikes,           \* Feed: postLikes[p1]
  likes_count,         \* Feed: likes_count of p1 in posts
  like_fetch,          \* Feed: the fetchPosts call in progress
  like_fetches,        \* how many fetchPosts calls have started
  like_events,         \* realtime post_likes events not yet delivered
  mounted,             \* Chat: the screen is mounted
  effects,             \* how many times the Chat effect has run
  requests             \* updateUserOnlineStatus requests not yet applied

db == <<star_balance, wallet_balance, total_earned, view_count, story_views,
        story_transactions, wallet_history, view_transactions,
        user_notifications>>
\* the state of the client components and of the tables only they write
storyForm == <<starPrice, user_storylines>>
payments == <<payment_requests, pr_access>>
createPost == <<vip, posts_table, submit>>
feed == <<posts, fetch_calls, fetches, post_events>>
media == <<mediaFiles, rendered>>
likes == <<post_likes, like_seq, postLikes, likes_count, like_fetch,
           like_fetches, like_events>>
presence == <<mounted, effects, requests>>
client == <<storyForm, payments, createPost, feed, media, likes, presence>>
fixed == <<star_price, post_views, post_status, username, is_online, star_null,
           client>>
vars == <<star_balance, wallet_balance, total_earned, story_status, star_price,
          view_count, story_views, story_transactions, wallet_history,
          view_transactions, post_views, post_status, user_notifications,
          username, is_online, star_null, tx, ncalls, nmods, client>>
\* everything the ledger procedures, the admin and the profile screens work on
ledger == <<db, story_status, star_price, post_views, post_status, username,
            is_online, star_null, tx, ncalls, nmods>>

\* ------------------------------------------------------------ the shares
UploaderShareHalf(v_price) == (v_price * star_value * 50) \div 100

\* v_price * star_value * 0.60 in numeric arithmetic
UploaderShare(v_price) == (v_price * star_value * 60) \div 100
\* v_price * star_value * 0.20
ViewerShare(v_price) == (v_price * star_value * 20) \div 100
\* v_price * star_value * 0.20
PlatformShare(v_price) == (v_price * star_value * 20) \div 100

InsufficientStarsOffByOne(v_viewer_stars, v_price) == v_viewer_stars < v_price - 1

\* IF v_viewer_stars < v_price THEN RETURN ... 'Insufficient stars'
InsufficientStars(v_viewer_stars, v_price) == v_viewer_stars < v_price

\* SELECT coalesce(star_balance,0) ... WHERE id = a
CoalescedStars(a) == IF a \in star_null THEN 0 ELSE star_balance[a]

\* IF v_price <= 0 OR v_uploader = p_viewer_id
FreeOrOwn(v_price, v_uploader, p_viewer_id) ==
  v_price <= 0 \/ v_uploader = p_viewer_id

\* -------------------------------------------------------- buffered writes
NoWrites ==
  [star   |-> [a \in Accounts |-> 0],
   wallet |-> [a \in Accounts |-> 0],
   earned |-> [a \in Accounts |-> 0],
   vcount |-> [s \in Stories |-> 0],
   views  |-> {},
   txns   |-> EmptyBag,
   hist   |-> EmptyBag,
   vtx    |-> EmptyBag,
   notes  |-> EmptyBag]

One(row) == SetToBag({row})

IdleSlot ==
  [pc |-> "idle", proc |-> "none", p_id |-> NoOne, p_viewer_id |-> NoOne,
   v_uploader |-> NoOne, v_price |-> 0, v_view_exists |-> FALSE,
   v_viewer_stars |-> 0, locks |-> {}, writes |-> NoWrites,
   result |-> [none |-> TRUE],
   \* history of the call, kept for the properties: the statement it ended at,
   \* the sessions whose call had ended when it began, whether the View Record
   \* existed when it began, whether the story was active at any moment since
   from |-> "none", prior |-> {},
   had_view |-> FALSE, was_active |-> FALSE]

Running(t) == tx[t].pc \notin {"idle", "done"}

\* a row lock taken by an UPDATE is free, or already ours
LockFree(t, row) == \A u \in Sessions \ {t} : row \notin tx[u].locks

\* SELECT EXISTS (SELECT 1 FROM story_views WHERE story_id = .. AND viewer_id = ..)
ViewExists(story, viewer) ==
  \E r \in story_views : r.story_id = story /\ r.viewer_id = viewer

\* another transaction in progress has inserted the same (story_id, viewer_id)
\* key and not yet ended: the INSERT waits for it
KeyPending(t, story, viewer) ==
  \E u \in Sessions \ {t} :
    /\ Running(u)
    /\ \E r \in tx[u].writes.views : r.story_id = story /\ r.viewer_id = viewer

\* --------------------------------------------------- transaction endings
\* a statement that neither returns nor raises: only the session changes
Step(t, slot) ==
  /\ tx' = [tx EXCEPT ![t] = slot]
  /\ UNCHANGED <<db, fixed, story_status, ncalls, nmods>>

\* RETURN: the function's transaction commits its buffered writes
Commit(t, c, res) ==
  LET w == c.writes IN
  /\ star_balance' = [a \in Accounts |-> star_balance[a] + w.star[a]]
  /\ wallet_balance' = [a \in Accounts |-> wallet_balance[a] + w.wallet[a]]
  /\ total_earned' = [a \in Accounts |-> total_earned[a] + w.earned[a]]
  /\ view_count' = [s \in Stories |-> view_count[s] + w.vcount[s]]
  /\ story_views' = story_views \cup w.views
  /\ story_transactions' = story_transactions (+) w.txns
  /\ wallet_history' = wallet_history (+) w.hist
  /\ view_transactions' = view_transactions (+) w.vtx
  /\ user_notifications' = user_notifications (+) w.notes
  /\ tx' = [tx EXCEPT ![t] = [c EXCEPT !.pc = "done", !.from = tx[t].pc,
                                       !.locks = {}, !.result = res]]
  /\ UNCHANGED <<fixed, story_status, ncalls, nmods>>

AbortKeepsWrites(t, exc) == Commit(t, tx[t], [exception |-> exc])

\* an exception leaves the function: the transaction rolls back
Abort(t, exc) ==
  Step(t, [tx[t] EXCEPT !.pc = "done", !.from = tx[t].pc, !.locks = {},
                        !.writes = NoWrites, !.result = [exception |-> exc]])

\* INSERT INTO story_views under UNIQUE(story_id, viewer_id)
InsertView(t, row, nextpc) ==
  /\ ~KeyPending(t, row.story_id, row.viewer_id)
  /\ IF ViewExists(row.story_id, row.viewer_id)
       THEN Abort(t, "unique_violation")
       ELSE Step(t, [tx[t] EXCEPT !.pc = nextpc,
                                  !.writes.views = @ \cup {row}])

\* ------------------------------------------------------------ the client
\* supabase.rpc(proc, {p_story_id | p_post_id, p_viewer_id})
Begin(t, proc, id, viewer) ==
  /\ ~Running(t)
  /\ ncalls < MaxCalls
  /\ ncalls' = ncalls + 1
  /\ tx' = [u \in Sessions |->
             IF u = t
               THEN [IdleSlot EXCEPT !.pc = "select", !.proc = proc,
                                     !.p_id = id, !.p_viewer_id = viewer,
                                     !.prior = {u2 \in Sessions \ {t} :
                                                  tx[u2].pc = "done"},
                                     !.had_view =
                                       \E r \in story_views :
                                         r.story_id = id /\ r.viewer_id = viewer,
                                     !.was_active = id \in Stories
                                                    => story_status[id] = "active"]
               ELSE [tx[u] EXCEPT !.prior = @ \ {t}]]
  /\ UNCHANGED <<db, fixed, story_status, nmods>>

\* ------------------------------- process_story_view(p_story_id text, ...)
At(t, proc, pc) == tx[t].proc = proc /\ tx[t].pc = pc

StorySelectStory(t) ==
  /\ At(t, "story_text", "select")
  /\ LET s == tx[t].p_id
         v_uploader == story_owner[s]
         v_price == star_price[s]
     IN IF story_status[s] # "active"
          THEN Commit(t, tx[t],
                      [success |-> FALSE, error |-> "Story not found"])
          ELSE IF FreeOrOwn(v_price, v_uploader, tx[t].p_viewer_id)
            THEN Commit(t, [tx[t] EXCEPT !.v_uploader = v_uploader,
                                      !.v_price = v_price],
                        [success |-> TRUE, viewer_earn |-> 0, charged |-> FALSE])
            ELSE Step(t, [tx[t] EXCEPT !.pc = "viewed",
                                       !.v_uploader = v_uploader,
                                       !.v_price = v_price])

StoryCheckViewedSkipped(t) ==
  /\ At(t, "story_text", "viewed")
  /\ Step(t, [tx[t] EXCEPT !.pc = "balance"])

StoryCheckViewed(t) ==
  /\ At(t, "story_text", "viewed")
  /\ LET v_view_exists == ViewExists(tx[t].p_id, tx[t].p_viewer_id)
     IN IF v_view_exists
          THEN Commit(t, [tx[t] EXCEPT !.v_view_exists = TRUE],
                      [success |-> TRUE, viewer_earn |-> 0, charged |-> FALSE])
          ELSE Step(t, [tx[t] EXCEPT !.pc = "balance"])

StoryCheckBalance(t) ==
  /\ At(t, "story_text", "balance")
  /\ LET v_viewer_stars == CoalescedStars(tx[t].p_viewer_id)
     IN IF InsufficientStars(v_viewer_stars, tx[t].v_price)
          THEN Commit(t, [tx[t] EXCEPT !.v_viewer_stars = v_viewer_stars],
                      [success |-> FALSE, error |-> "Insufficient stars"])
          ELSE Step(t, [tx[t] EXCEPT !.pc = "deduct",
                                     !.v_viewer_stars = v_viewer_stars])

StoryDeductStars(t) ==
  /\ At(t, "story_text", "deduct")
  /\ LockFree(t, tx[t].p_viewer_id)
  /\ Step(t, [tx[t] EXCEPT !.pc = "insert_view",
                           !.locks = @ \cup {tx[t].p_viewer_id},
                           !.writes.star[tx[t].p_viewer_id] = @ - tx[t].v_price])

StoryInsertView(t) ==
  /\ At(t, "story_text", "insert_view")
  /\ InsertView(t, [story_id |-> tx[t].p_id, viewer_id |-> tx[t].p_viewer_id,
                    stars_spent |-> tx[t].v_price], "credit_uploader")

StoryCreditUploader(t) ==
  /\ At(t, "story_text", "credit_uploader")
  /\ LockFree(t, tx[t].v_uploader)
  /\ Step(t, [tx[t] EXCEPT
       !.pc = "credit_viewer",
       !.locks = @ \cup {tx[t].v_uploader},
       !.writes.wallet[tx[t].v_uploader] = @ + UploaderShare(tx[t].v_price),
       !.writes.earned[tx[t].v_uploader] = @ + UploaderShare(tx[t].v_price)])

StoryCreditViewerAndRecord(t) ==
  /\ At(t, "story_text", "credit_viewer")
  /\ LET c == tx[t]
         uploader_share == UploaderShare(c.v_price)
         viewer_share == ViewerShare(c.v_price)
         platform_share == PlatformShare(c.v_price)
         w == [c.writes EXCEPT
                 !.wallet[c.p_viewer_id] = @ + viewer_share,
                 !.hist = @ (+) One([user_id |-> c.v_uploader, type |-> "story_earn",
                                     amount |-> uploader_share, currency |-> "NGN",
                                     content |-> c.p_id, stars_spent |-> c.v_price])
                            (+) One([user_id |-> c.p_viewer_id, type |-> "story_cashback",
                                     amount |-> viewer_share, currency |-> "NGN",
                                     content |-> c.p_id, stars_spent |-> c.v_price]),
                 !.txns = @ (+) One([story_id |-> c.p_id, uploader_id |-> c.v_uploader,
                                     viewer_id |-> c.p_viewer_id,
                                     stars_spent |-> c.v_price,
                                     uploader_earn |-> uploader_share,
                                     viewer_earn |-> viewer_share,
                                     platform_earn |-> platform_share])]
     IN Commit(t, [c EXCEPT !.writes = w], [success |-> TRUE, viewer_earn |-> viewer_share,
                      charged |-> TRUE])

\* ------------------------------- process_post_view(p_post_id text, ...)
\* SELECT EXISTS (SELECT 1 FROM post_views WHERE post_id = .. AND user_id = ..)
PostViewExists(post, viewer) ==
  \E r \in post_views : r.post_id = post /\ r.user_id = viewer

PostSelectPost(t) ==
  /\ At(t, "post", "select")
  /\ LET p == tx[t].p_id
         v_uploader == post_owner[p]
         v_price == star_price[p]
     IN IF post_status[p] # "approved"
          THEN Commit(t, tx[t],
                      [success |-> FALSE, error |-> "Post not found"])
          ELSE IF FreeOrOwn(v_price, v_uploader, tx[t].p_viewer_id)
            THEN Commit(t, [tx[t] EXCEPT !.v_uploader = v_uploader,
                                      !.v_price = v_price],
                        [success |-> TRUE, viewer_earn |-> 0, charged |-> FALSE])
            ELSE Step(t, [tx[t] EXCEPT !.pc = "viewed",
                                       !.v_uploader = v_uploader,
                                       !.v_price = v_price])

PostCheckViewed(t) ==
  /\ At(t, "post", "viewed")
  /\ LET v_view_exists == PostViewExists(tx[t].p_id, tx[t].p_viewer_id)
     IN IF v_view_exists
          THEN Commit(t, [tx[t] EXCEPT !.v_view_exists = TRUE],
                      [success |-> TRUE, viewer_earn |-> 0, charged |-> FALSE])
          ELSE Step(t, [tx[t] EXCEPT !.pc = "balance"])

PostCheckBalance(t) ==
  /\ At(t, "post", "balance")
  /\ LET v_viewer_stars == CoalescedStars(tx[t].p_viewer_id)
     IN IF InsufficientStars(v_viewer_stars, tx[t].v_price)
          THEN Commit(t, [tx[t] EXCEPT !.v_viewer_stars = v_viewer_stars],
                      [success |-> FALSE, error |-> "Insufficient stars"])
          ELSE Step(t, [tx[t] EXCEPT !.pc = "deduct",
                                     !.v_viewer_stars = v_viewer_stars])

PostDeductStars(t) ==
  /\ At(t, "post", "deduct")
  /\ LockFree(t, tx[t].p_viewer_id)
  /\ Step(t, [tx[t] EXCEPT !.pc = "credit_uploader",
                           !.locks = @ \cup {tx[t].p_viewer_id},
                           !.writes.star[tx[t].p_viewer_id] = @ - tx[t].v_price])

PostCreditUploader(t) ==
  /\ At(t, "post", "credit_uploader")
  /\ LockFree(t, tx[t].v_uploader)
  /\ Step(t, [tx[t] EXCEPT
       !.pc = "credit_viewer",
       !.locks = @ \cup {tx[t].v_uploader},
       !.writes.wallet[tx[t].v_uploader] = @ + UploaderShare(tx[t].v_price),
       !.writes.earned[tx[t].v_uploader] = @ + UploaderShare(tx[t].v_price)])

PostCreditViewerAndRecord(t) ==
  /\ At(t, "post", "credit_viewer")
  /\ LET c == tx[t]
         uploader_share == UploaderShare(c.v_price)
         viewer_share == ViewerShare(c.v_price)
         platform_share == PlatformShare(c.v_price)
         w == [c.writes EXCEPT
                 !.wallet[c.p_viewer_id] = @ + viewer_share,
                 !.hist = @ (+) One([user_id |-> c.v_uploader, type |-> "upload_earn",
                                     amount |-> uploader_share, currency |-> "NGN",
                                     content |-> c.p_id, stars_spent |-> c.v_price])
                            (+) One([user_id |-> c.p_viewer_id, type |-> "view_earn",
                                     amount |-> viewer_share, currency |-> "NGN",
                                     content |-> c.p_id, stars_spent |-> c.v_price]),
                 !.vtx = @ (+) One([post_id |-> c.p_id, viewer_id |-> c.p_viewer_id,
                                    uploader_id |-> c.v_uploader,
                                    star_price |-> c.v_price,
                                    uploader_amount |-> uploader_share,
                                    viewer_amount |-> viewer_share,
                                    platform_amount |-> platform_share])]
     IN Commit(t, [c EXCEPT !.writes = w], [success |-> TRUE, viewer_earn |-> viewer_share,
                      charged |-> TRUE])

\* ------------------------------- process_story_view(p_story_id uuid, ...)
V1SelectStory(t) ==
  /\ At(t, "story_uuid", "select")
  /\ LET s == tx[t].p_id
     IN IF story_status[s] # "active"
          THEN Commit(t, tx[t],
                      [success |-> FALSE, error |-> "Story not found"])
          ELSE Step(t, [tx[t] EXCEPT !.pc = "viewed",
                                     !.v_uploader = story_owner[s],
                                     !.v_price = star_price[s]])

V1CheckViewed(t) ==
  /\ At(t, "story_uuid", "viewed")
  /\ IF ViewExists(tx[t].p_id, tx[t].p_viewer_id)
       THEN Commit(t, [tx[t] EXCEPT !.v_view_exists = TRUE],
                   [success |-> TRUE, already_viewed |-> TRUE])
       ELSE Step(t, [tx[t] EXCEPT !.pc = IF tx[t].v_price = 0
                                           THEN "free_insert" ELSE "balance"])

V1FreeInsertView(t) ==
  /\ At(t, "story_uuid", "free_insert")
  /\ InsertView(t, [story_id |-> tx[t].p_id, viewer_id |-> tx[t].p_viewer_id,
                    stars_spent |-> 0], "free_count")

V1FreeCount(t) ==
  /\ At(t, "story_uuid", "free_count")
  /\ LockFree(t, tx[t].p_id)
  /\ Commit(t, [tx[t] EXCEPT !.writes.vcount[tx[t].p_id] = @ + 1],
            [success |-> TRUE, free |-> TRUE])

V1CheckBalance(t) ==
  /\ At(t, "story_uuid", "balance")
  /\ LET v_viewer_balance == star_balance[tx[t].p_viewer_id]
     \* no coalesce: NULL < v_star_price is NULL, and IF takes NULL as false
     IN IF /\ tx[t].p_viewer_id \notin star_null
           /\ InsufficientStars(v_viewer_balance, tx[t].v_price)
          THEN Commit(t, [tx[t] EXCEPT !.v_viewer_stars = v_viewer_balance],
                      [success |-> FALSE, error |-> "Insufficient stars"])
          ELSE Step(t, [tx[t] EXCEPT !.pc = "deduct",
                                     !.v_viewer_stars = v_viewer_balance])

V1DeductStars(t) ==
  /\ At(t, "story_uuid", "deduct")
  /\ LockFree(t, tx[t].p_viewer_id)
  \* NULL - v_star_price is NULL: the row is locked and keeps no value
  /\ Step(t, [tx[t] EXCEPT !.pc = "credit",
                           !.locks = @ \cup {tx[t].p_viewer_id},
                           !.writes.star[tx[t].p_viewer_id] =
                             IF tx[t].p_viewer_id \in star_null
                               THEN @ ELSE @ - tx[t].v_price])

V1CreditWallets(t) ==
  /\ At(t, "story_uuid", "credit")
  /\ LockFree(t, tx[t].v_uploader)
  /\ LET c == tx[t]
         w1 == [c.writes EXCEPT
                  !.wallet[c.v_uploader] = @ + UploaderShare(c.v_price)]
         w2 == [w1 EXCEPT
                  !.wallet[c.p_viewer_id] = @ + ViewerShare(c.v_price)]
     IN Step(t, [c EXCEPT !.pc = "insert_view",
                          !.locks = @ \cup {c.v_uploader},
                          !.writes = w2])

V1InsertView(t) ==
  /\ At(t, "story_uuid", "insert_view")
  /\ InsertView(t, [story_id |-> tx[t].p_id, viewer_id |-> tx[t].p_viewer_id,
                    stars_spent |-> tx[t].v_price], "record")

V1RecordAndCount(t) ==
  /\ At(t, "story_uuid", "record")
  /\ LockFree(t, tx[t].p_id)
  /\ LET c == tx[t]
     IN Step(t, [c EXCEPT
          !.pc = "notify",
          !.locks = @ \cup {c.p_id},
          !.writes.txns = @ (+) One([story_id |-> c.p_id,
                                     uploader_id |-> c.v_uploader,
                                     viewer_id |-> c.p_viewer_id,
                                     stars_spent |-> c.v_price,
                                     uploader_earn |-> UploaderShare(c.v_price),
                                     viewer_earn |-> ViewerShare(c.v_price),
                                     platform_earn |-> PlatformShare(c.v_price)]),
          !.writes.vcount[c.p_id] = @ + 1])

V1Notify(t) ==
  /\ At(t, "story_uuid", "notify")
  /\ LET c == tx[t]
         w == [c.writes EXCEPT
                 !.notes = @ (+) One([user_id |-> c.v_uploader,
                                      notification_category |-> "story_earn",
                                      story_id |-> c.p_id])
                             (+) One([user_id |-> c.p_viewer_id,
                                      notification_category |-> "story_cashback",
                                      story_id |-> c.p_id])]
     IN Commit(t, [c EXCEPT !.writes = w], [success |-> TRUE,
                      uploader_earn |-> UploaderShare(c.v_price),
                      viewer_earn |-> ViewerShare(c.v_price)])

\* one of the two INSERT INTO user_notifications statements raises (a
\* constraint of the table, a missing account): the function has no EXCEPTION
\* block, so the error leaves it
V1NotifyFails(t) ==
  /\ At(t, "story_uuid", "notify")
  /\ Abort(t, "notification_failed")

\* ----------------------------- process_story_view(p_story_id bigint, ...)
LegacySelectStory(t) ==
  /\ At(t, "story_bigint", "select")
  /\ Step(t, [tx[t] EXCEPT !.pc = "balance",
                           !.v_uploader = story_owner[tx[t].p_id],
                           !.v_price = star_price[tx[t].p_id]])

LegacySelectBalance(t) ==
  /\ At(t, "story_bigint", "balance")
  /\ LET c == tx[t]
         viewer_star_balance == star_balance[c.p_viewer_id]
     IN IF c.v_price > 0 /\ c.v_uploader # c.p_viewer_id
          \* NULL >= story_star_price is NULL: the else branch
          THEN IF c.p_viewer_id \notin star_null /\ viewer_star_balance >= c.v_price
                 THEN Step(t, [c EXCEPT !.pc = "deduct",
                                        !.v_viewer_stars = viewer_star_balance])
                 ELSE Commit(t, [c EXCEPT !.v_viewer_stars = viewer_star_balance],
                             [success |-> FALSE, error |-> "Insufficient stars",
                              viewer_earn |-> 0])
          ELSE Commit(t, [c EXCEPT !.v_viewer_stars = viewer_star_balance],
                      [success |-> TRUE, error |-> "NULL", viewer_earn |-> 0])

LegacyDeductStars(t) ==
  /\ At(t, "story_bigint", "deduct")
  /\ LockFree(t, tx[t].p_viewer_id)
  /\ Step(t, [tx[t] EXCEPT !.pc = "credit_owner",
                           !.locks = @ \cup {tx[t].p_viewer_id},
                           !.writes.star[tx[t].p_viewer_id] = @ - tx[t].v_price])

LegacyCreditOwner(t) ==
  /\ At(t, "story_bigint", "credit_owner")
  /\ LockFree(t, tx[t].v_uploader)
  /\ Step(t, [tx[t] EXCEPT !.pc = "record",
                           !.locks = @ \cup {tx[t].v_uploader},
                           !.writes.star[tx[t].v_uploader] =
                             IF tx[t].v_uploader \in star_null
                               THEN @ ELSE @ + tx[t].v_price])

LegacyRecord(t) ==
  /\ At(t, "story_bigint", "record")
  /\ LET c == tx[t]
         own(a) == star_balance[a] + c.writes.star[a]
         w == [c.writes EXCEPT
                 !.hist = @ (+) One([user_id |-> c.p_viewer_id,
                                     type |-> "story_view_fee",
                                     amount |-> 0 - c.v_price,
                                     star_balance |-> own(c.p_viewer_id)])
                            (+) One([user_id |-> c.v_uploader,
                                     type |-> "story_view_earn",
                                     amount |-> c.v_price,
                                     star_balance |-> own(c.v_uploader)])]
     IN Commit(t, [c EXCEPT !.writes = w], [success |-> TRUE, error |-> "NULL",
                      viewer_earn |-> ViewerShare(c.v_price)])

\* -------------------------------------------- the store's deadlock breaker
\* the row the statement at pc will lock, if any
LockWanted(t) ==
  LET c == tx[t]
  IN IF c.pc = "deduct" THEN {c.p_viewer_id}
     ELSE IF c.pc \in {"credit_uploader", "credit", "credit_owner"} THEN {c.v_uploader}
     ELSE IF c.pc \in {"record", "free_count"} /\ c.proc = "story_uuid" THEN {c.p_id}
     ELSE {}

WaitsFor(t, u) ==
  /\ t # u /\ Running(t) /\ Running(u)
  /\ \/ LockWanted(t) \cap tx[u].locks # {}
     \/ /\ tx[t].pc \in {"insert_view", "free_insert"}
        /\ \E r \in tx[u].writes.views :
             r.story_id = tx[t].p_id /\ r.viewer_id = tx[t].p_viewer_id

\* two transactions wait for each other: the store aborts one of them
DeadlockAbort(t) ==
  /\ \E u \in Sessions : WaitsFor(t, u) /\ WaitsFor(u, t)
  /\ Abort(t, "deadlock_detected")

\* ------------------------------------------------ Admin / StoryManagement
RowLocked(row) == \E u \in Sessions : row \in tx[u].locks

handleSuspendDeletesViews(s) ==
  /\ story_status[s] = "active"
  /\ nmods < MaxSuspends
  /\ ~RowLocked(s)
  /\ story_status' = [story_status EXCEPT ![s] = "suspended"]
  /\ story_views' = {r \in story_views : r.story_id # s}
  /\ nmods' = nmods + 1
  /\ UNCHANGED <<star_balance, wallet_balance, total_earned, view_count,
                 story_transactions, wallet_history, view_transactions,
                 user_notifications, fixed, tx, ncalls>>

handleSuspend(s) ==
  /\ story_status[s] = "active"
  /\ nmods < MaxSuspends
  /\ ~RowLocked(s)
  /\ story_status' = [story_status EXCEPT ![s] = "suspended"]
  /\ user_notifications' = user_notifications (+)
       One([user_id |-> story_owner[s],
            notification_category |-> "story_suspension", story_id |-> s])
  /\ nmods' = nmods + 1
  /\ UNCHANGED <<star_balance, wallet_balance, total_earned, view_count,
                 story_views, story_transactions, wallet_history,
                 view_transactions, fixed, tx, ncalls>>

handleUnsuspend(s) ==
  /\ story_status[s] = "suspended"
  /\ ~RowLocked(s)
  /\ story_status' = [story_status EXCEPT ![s] = "active"]
  /\ tx' = [t \in Sessions |->
             IF Running(t) /\ tx[t].p_id = s
               THEN [tx[t] EXCEPT !.was_active = TRUE] ELSE tx[t]]
  /\ UNCHANGED <<db, fixed, ncalls, nmods>>

\* ------------------------------------------------- the client, directly
\* supabase.from('story_views').insert(...) by the signed-in user v, admitted
\* by "Users can create story views": WITH CHECK (viewer_id = auth.uid())
DirectInsertView(v, s, spent) ==
  /\ \A t \in Sessions : ~KeyPending(t, s, v)
  /\ ~ViewExists(s, v)
  /\ story_views' = story_views \cup
       {[story_id |-> s, viewer_id |-> v, stars_spent |-> spent]}
  /\ UNCHANGED <<star_balance, wallet_balance, total_earned, story_status,
                 view_count, story_transactions, wallet_history,
                 view_transactions, user_notifications, fixed, tx, ncalls,
                 nmods>>

\* ------------------------------------------- the client on user_profiles
\* every statement below passes "Users can update their own profile":
\* FOR UPDATE USING (id = auth.uid()), a being the signed-in user

\* ProfileSetup: upsert of {id, username, full_name, bio, avatar_url}; a taken
\* username is rejected (23505)
ProfileSetupSubmit(a, name) ==
  /\ ~RowLocked(a)
  /\ \A b \in Accounts \ {a} : username[b] # name
  /\ username' = [username EXCEPT ![a] = name]
  /\ UNCHANGED <<db, story_status, star_price, post_views, post_status,
                 is_online, star_null, client, tx, ncalls, nmods>>

\* EditProfile.handleSubmit: update of {username, bio, avatar_url}
EditProfileSubmit(a, name) ==
  /\ ~RowLocked(a)
  /\ \A b \in Accounts \ {a} : username[b] # name
  /\ username[a] # name
  /\ username' = [username EXCEPT ![a] = name]
  /\ UNCHANGED <<db, story_status, star_price, post_views, post_status,
                 is_online, star_null, client, tx, ncalls, nmods>>

\* Chat.updateUserOnlineStatus: update of {is_online, last_seen}
updateUserOnlineStatus(a, isOnline) ==
  /\ ~RowLocked(a)
  /\ is_online' = [is_online EXCEPT ![a] = isOnline]
  /\ UNCHANGED <<db, story_status, star_price, post_views, post_status,
                 username, star_null, client, tx, ncalls, nmods>>

\* supabase.from('user_profiles').update({star_balance: n}).eq('id', a): the
\* policy looks at the row's id only, not at the columns written
UpdateOwnStarBalance(a, n) ==
  /\ ~RowLocked(a)
  /\ star_balance' = [star_balance EXCEPT ![a] = n]
  /\ UNCHANGED <<wallet_balance, total_earned, view_count, story_views,
                 story_transactions, wallet_history, view_transactions,
                 user_notifications, story_status, fixed, tx, ncalls, nmods>>

\* the same with {wallet_balance: w}
UpdateOwnWalletBalance(a, w) ==
  /\ ~RowLocked(a)
  /\ wallet_balance' = [wallet_balance EXCEPT ![a] = w]
  /\ UNCHANGED <<star_balance, total_earned, view_count, story_views,
                 story_transactions, wallet_history, view_transactions,
                 user_notifications, story_status, fixed, tx, ncalls, nmods>>

\* ---------------------------------------------------------- specification
\* the client components as mounted, before any event
ClientInit ==
  /\ starPrice = 0
  /\ user_storylines = {}
  /\ payment_requests = {}
  /\ pr_access = {}
  /\ vip = "false"
  /\ posts_table = {}
  /\ submit = [pc |-> "idle", profile_vip |-> "null"]
  /\ posts = {}
  /\ fetch_calls = 1
  /\ fetches = {}
  /\ post_events = {}
  /\ mediaFiles = << >>
  /\ rendered = << >>
  /\ post_likes = {}
  /\ like_seq = 0
  /\ postLikes = << >>
  /\ likes_count = 0
  /\ like_fetch = [pc |-> "idle", likes_count |-> 0, likesData |-> << >>]
  /\ like_fetches = 0
  /\ like_events = << >>
  /\ mounted = FALSE
  /\ effects = 0
  /\ requests = EmptyBag

Init ==
  /\ star_balance = InitStars
  /\ wallet_balance = [a \in Accounts |-> 0]
  /\ total_earned = [a \in Accounts |-> 0]
  /\ story_status = [s \in Stories |-> "active"]
  /\ \E p \in 0..MaxStarPrice :
       star_price = [c \in Stories \cup Posts |->
                       IF c = "s1" THEN p ELSE 2]
  /\ view_count = [s \in Stories |-> 0]
  /\ story_views = {}
  /\ story_transactions = EmptyBag
  /\ wallet_history = EmptyBag
  /\ view_transactions = EmptyBag
  /\ post_views = {}
  /\ post_status = [p \in Posts |-> "approved"]
  /\ user_notifications = EmptyBag
  /\ username = InitNames
  /\ is_online = [a \in Accounts |-> FALSE]
  /\ star_null = {}
  /\ tx = [t \in Sessions |-> IdleSlot]
  /\ ncalls = 0
  /\ nmods = 0
  /\ ClientInit

Next ==
  \/ \E t \in Sessions, s \in Stories, v \in Accounts : Begin(t, "story_text", s, v)
  \/ \E t \in Sessions : StorySelectStory(t)
  \/ \E t \in Sessions : StoryCheckViewed(t)
  \/ \E t \in Sessions : StoryCheckBalance(t)
  \/ \E t \in Sessions : StoryDeductStars(t)
  \/ \E t \in Sessions : StoryInsertView(t)
  \/ \E t \in Sessions : StoryCreditUploader(t)
  \/ \E t \in Sessions : StoryCreditViewerAndRecord(t)
  \/ \E t \in Sessions, p \in Posts, v \in Accounts : Begin(t, "post", p, v)
  \/ \E t \in Sessions : PostSelectPost(t)
  \/ \E t \in Sessions : PostCheckViewed(t)
  \/ \E t \in Sessions : PostCheckBalance(t)
  \/ \E t \in Sessions : PostDeductStars(t)
  \/ \E t \in Sessions : PostCreditUploader(t)
  \/ \E t \in Sessions : PostCreditViewerAndRecord(t)
  \/ \E t \in Sessions, s \in Stories, v \in Accounts : Begin(t, "story_uuid", s, v)
  \/ \E t \in Sessions : V1SelectStory(t)
  \/ \E t \in Sessions : V1CheckViewed(t)
  \/ \E t \in Sessions : V1FreeInsertView(t)
  \/ \E t \in Sessions : V1FreeCount(t)
  \/ \E t \in Sessions : V1CheckBalance(t)
  \/ \E t \in Sessions : V1DeductStars(t)
  \/ \E t \in Sessions : V1CreditWallets(t)
  \/ \E t \in Sessions : V1InsertView(t)
  \/ \E t \in Sessions : V1RecordAndCount(t)
  \/ \E t \in Sessions : V1Notify(t)
  \/ \E t \in Sessions : DeadlockAbort(t)
  \/ \E s \in Moderated : handleSuspend(s)
  \/ \E s \in Moderated : handleUnsuspend(s)

\* the database with the bigint overload of process_story_view as well
NextOverloads ==
  \/ Next
  \/ \E t \in Sessions, s \in Stories, v \in Accounts : Begin(t, "story_bigint", s, v)
  \/ \E t \in Sessions : LegacySelectStory(t)
  \/ \E t \in Sessions : LegacySelectBalance(t)
  \/ \E t \in Sessions : LegacyDeductStars(t)
  \/ \E t \in Sessions : LegacyCreditOwner(t)
  \/ \E t \in Sessions : LegacyRecord(t)

Spec == Init /\ [][Next]_vars
SpecOverloads == Init /\ [][NextOverloads]_vars

\* process_story_view(text) and clients that write story_views themselves
NextClient ==
  \/ \E t \in Sessions, s \in Stories, v \in Accounts : Begin(t, "story_text", s, v)
  \/ \E t \in Sessions : StorySelectStory(t)
  \/ \E t \in Sessions : StoryCheckViewed(t)
  \/ \E t \in Sessions : StoryCheckBalance(t)
  \/ \E t \in Sessions : StoryDeductStars(t)
  \/ \E t \in Sessions : StoryInsertView(t)
  \/ \E t \in Sessions : StoryCreditUploader(t)
  \/ \E t \in Sessions : StoryCreditViewerAndRecord(t)
  \/ \E t \in Sessions : DeadlockAbort(t)
  \/ \E v \in Accounts, s \in Stories : DirectInsertView(v, s, 0)

SpecClient == Init /\ [][NextClient]_vars

\* process_story_view(uuid) with its notification inserts able to fail
NextNotify ==
  \/ \E t \in Sessions, s \in Stories, v \in Accounts : Begin(t, "story_uuid", s, v)
  \/ \E t \in Sessions : V1SelectStory(t)
  \/ \E t \in Sessions : V1CheckViewed(t)
  \/ \E t \in Sessions : V1FreeInsertView(t)
  \/ \E t \in Sessions : V1FreeCount(t)
  \/ \E t \in Sessions : V1CheckBalance(t)
  \/ \E t \in Sessions : V1DeductStars(t)
  \/ \E t \in Sessions : V1CreditWallets(t)
  \/ \E t \in Sessions : V1InsertView(t)
  \/ \E t \in Sessions : V1RecordAndCount(t)
  \/ \E t \in Sessions : V1Notify(t)
  \/ \E t \in Sessions : V1NotifyFails(t)
  \/ \E t \in Sessions : DeadlockAbort(t)

SpecNotify == Init /\ [][NextNotify]_vars

\* what a signed-in client can do to user_profiles without the procedures
NextProfiles ==
  \/ \E a \in Accounts, name \in Names : ProfileSetupSubmit(a, name)
  \/ \E a \in Accounts, name \in Names : EditProfileSubmit(a, name)
  \/ \E a \in Accounts, isOnline \in BOOLEAN : updateUserOnlineStatus(a, isOnline)
  \/ \E a \in Accounts, n \in 0..MaxStarPrice : UpdateOwnStarBalance(a, n)
  \/ \E a \in Accounts, p \in 0..MaxStarPrice :
       UpdateOwnWalletBalance(a, UploaderShare(p))

SpecProfiles == Init /\ [][NextProfiles]_vars

\* process_post_view alone, for any balance of the viewer and any post price
InitPosts ==
  /\ \E n \in 0..(2 * MaxStarPrice) :
       star_balance = [a \in Accounts |-> IF a = "a1" THEN n ELSE 0]
  /\ wallet_balance = [a \in Accounts |-> 0]
  /\ total_earned = [a \in Accounts |-> 0]
  /\ story_status = [s \in Stories |-> "active"]
  /\ \E p \in 0..MaxStarPrice :
       star_price = [c \in Stories \cup Posts |->
                       IF c \in Posts THEN p ELSE 0]
  /\ view_count = [s \in Stories |-> 0]
  /\ story_views = {}
  /\ story_transactions = EmptyBag
  /\ wallet_history = EmptyBag
  /\ view_transactions = EmptyBag
  /\ post_views = {}
  /\ post_status = [p \in Posts |-> "approved"]
  /\ user_notifications = EmptyBag
  /\ username = InitNames
  /\ is_online = [a \in Accounts |-> FALSE]
  /\ star_null = {}
  /\ tx = [t \in Sessions |-> IdleSlot]
  /\ ncalls = 0
  /\ nmods = 0
  /\ ClientInit

NextPosts ==
  \/ \E t \in Sessions, p \in Posts, v \in Accounts : Begin(t, "post", p, v)
  \/ \E t \in Sessions : PostSelectPost(t)
  \/ \E t \in Sessions : PostCheckViewed(t)
  \/ \E t \in Sessions : PostCheckBalance(t)
  \/ \E t \in Sessions : PostDeductStars(t)
  \/ \E t \in Sessions : PostCreditUploader(t)
  \/ \E t \in Sessions : PostCreditViewerAndRecord(t)

SpecPosts == InitPosts /\ [][NextPosts]_vars

\* process_story_view(text) and (uuid) over profiles whose star_balance may be
\* NULL: the column has a default and no NOT NULL
InitLedger ==
  /\ star_balance = InitStars
  /\ star_null \in SUBSET Accounts
  /\ wallet_balance = [a \in Accounts |-> 0]
  /\ total_earned = [a \in Accounts |-> 0]
  /\ story_status = [s \in Stories |-> "active"]
  /\ \E p \in 0..MaxStarPrice :
       star_price = [c \in Stories \cup Posts |->
                       IF c = "s1" THEN p ELSE 2]
  /\ view_count = [s \in Stories |-> 0]
  /\ story_views = {}
  /\ story_transactions = EmptyBag
  /\ wallet_history = EmptyBag
  /\ view_transactions = EmptyBag
  /\ post_views = {}
  /\ post_status = [p \in Posts |-> "approved"]
  /\ user_notifications = EmptyBag
  /\ username = InitNames
  /\ is_online = [a \in Accounts |-> FALSE]
  /\ tx = [t \in Sessions |-> IdleSlot]
  /\ ncalls = 0
  /\ nmods = 0
  /\ ClientInit

NextLedger ==
  \/ \E t \in Sessions, s \in Stories, v \in Accounts : Begin(t, "story_text", s, v)
  \/ \E t \in Sessions : StorySelectStory(t)
  \/ \E t \in Sessions : StoryCheckViewed(t)
  \/ \E t \in Sessions : StoryCheckBalance(t)
  \/ \E t \in Sessions : StoryDeductStars(t)
  \/ \E t \in Sessions : StoryInsertView(t)
  \/ \E t \in Sessions : StoryCreditUploader(t)
  \/ \E t \in Sessions : StoryCreditViewerAndRecord(t)
  \/ \E t \in Sessions, s \in Stories, v \in Accounts : Begin(t, "story_uuid", s, v)
  \/ \E t \in Sessions : V1SelectStory(t)
  \/ \E t \in Sessions : V1CheckViewed(t)
  \/ \E t \in Sessions : V1FreeInsertView(t)
  \/ \E t \in Sessions : V1FreeCount(t)
  \/ \E t \in Sessions : V1CheckBalance(t)
  \/ \E t \in Sessions : V1DeductStars(t)
  \/ \E t \in Sessions : V1CreditWallets(t)
  \/ \E t \in Sessions : V1InsertView(t)
  \/ \E t \in Sessions : V1RecordAndCount(t)
  \/ \E t \in Sessions : V1Notify(t)
  \/ \E t \in Sessions : DeadlockAbort(t)

SpecLedger == InitLedger /\ [][NextLedger]_vars

\* ------------------------------------------------------------ properties
StoryProcs == {"story_text", "story_uuid", "story_bigint"}
Done(t) == tx[t].pc = "done"
Has(r, f) == f \in DOMAIN r
NoDelta == [a \in Accounts |-> 0]

\* a call on a story by someone else than its owner, at a price above zero
PricedThirdParty(t) ==
  /\ tx[t].p_id \in Stories
  /\ star_price[tx[t].p_id] > 0
  /\ story_owner[tx[t].p_id] # tx[t].p_viewer_id

\* the call got past the free/own and already-viewed returns and read the balance
ReadBalance(t) ==
  tx[t].from \notin {"none", "select", "viewed", "free_insert", "free_count"}

StoryNotFound(t) ==
  Has(tx[t].result, "error") /\ tx[t].result.error = "Story not found"

\* the call of u began after the call of t had ended
Before(t, u) == t \in tx[u].prior

SamePair(t, u) ==
  /\ tx[t].proc = tx[u].proc
  /\ tx[t].p_id = tx[u].p_id
  /\ tx[t].p_viewer_id = tx[u].p_viewer_id

\* success without a charge: charged = false where the result carries the
\* field, already_viewed = true where it carries that one
IdempotentSuccess(r) ==
  /\ Has(r, "success") /\ r.success
  /\ Has(r, "charged") => ~r.charged
  /\ Has(r, "already_viewed") => r.already_viewed

RECURSIVE Weigh(_, _, _)
\* the sum of w[row] over the rows of bag B that are in the set S
Weigh(B, S, w) ==
  IF S = {} THEN 0
  ELSE LET r == CHOOSE x \in S : TRUE
       IN CopiesIn(r, B) * w[r] + Weigh(B, S \ {r}, w)

\* story_transactions rows of the pair
TxnCount(s, v) ==
  LET rows == {r \in BagToSet(story_transactions) :
                        r.story_id = s /\ r.viewer_id = v}
  IN Weigh(story_transactions, rows, [r \in rows |-> 1])
\* story_views rows of the pair
ViewCount(s, v) ==
  Cardinality({r \in story_views : r.story_id = s /\ r.viewer_id = v})
\* story_views rows of the pair with stars_spent > 0
ChargedViewCount(s, v) ==
  Cardinality({r \in story_views :
                 r.story_id = s /\ r.viewer_id = v /\ r.stars_spent > 0})
\* the stars the ledger rows say account a has paid
StarsCharged(a) ==
  LET st == {r \in BagToSet(story_transactions) : r.viewer_id = a}
      pt == {r \in BagToSet(view_transactions) : r.viewer_id = a}
  IN Weigh(story_transactions, st, [r \in st |-> r.stars_spent])
     + Weigh(view_transactions, pt, [r \in pt |-> r.star_price])

\* C1: Idempotence.  Two calls of the same process_story_view overload for a
\* priced story c and a non-owner viewer v with enough stars, the second begun
\* after the first ended, the first begun with no View Record for (c, v): there
\* is exactly one story_views row and one story_transactions row for (c, v),
\* the two calls together take the price from v once, and the second call
\* returns success without a charge.
Idempotence ==
  \A t, u \in Sessions :
    ( /\ t # u /\ Done(t) /\ Done(u)
      /\ tx[t].proc \in StoryProcs /\ SamePair(t, u) /\ Before(t, u)
      /\ PricedThirdParty(t)
      /\ ~tx[t].had_view
      /\ ReadBalance(t) /\ tx[t].v_viewer_stars >= star_price[tx[t].p_id]
      /\ ~StoryNotFound(t) /\ ~StoryNotFound(u) )
    => LET s == tx[t].p_id
           v == tx[t].p_viewer_id
       IN /\ ViewCount(s, v) = 1
          /\ TxnCount(s, v) = 1
          /\ tx[t].writes.star[v] + tx[u].writes.star[v] = 0 - star_price[s]
          /\ IdempotentSuccess(tx[u].result)

\* C2: Concurrency race.  Two calls of process_story_view(text) for the same
\* priced (story, viewer) pair whose executions overlap, both finding the
\* story active: when one of them has charged, the other has returned the
\* idempotent success (charged = false), not an error and not an exception,
\* and the pair has one Ledger Transaction.
ConcurrencyRace ==
  \A t, u \in Sessions :
    ( /\ t # u /\ Done(t) /\ Done(u)
      /\ tx[t].proc = "story_text" /\ SamePair(t, u)
      /\ ~Before(t, u) /\ ~Before(u, t)
      /\ PricedThirdParty(t)
      /\ Has(tx[t].result, "charged") /\ tx[t].result.charged
      /\ ~StoryNotFound(u) )
    => /\ IdempotentSuccess(tx[u].result)
       /\ tx[u].writes = NoWrites
       /\ TxnCount(tx[t].p_id, tx[t].p_viewer_id) = 1

\* C3: No negative balances.  Every account's star_balance is >= 0 in every
\* reachable state.
NoNegativeBalances == \A a \in Accounts : star_balance[a] >= 0

\* C4: Conservation.  Every story_transactions and view_transactions row of a
\* charged view with price p in 1..5 records uploader 300p, viewer 100p and
\* platform 100p, which add up to p * 500 and stand 60 : 20 : 20.
Conservation ==
  /\ \A r \in BagToSet(story_transactions) :
       r.stars_spent \in 1..5 =>
         /\ r.uploader_earn = 300 * r.stars_spent
         /\ r.viewer_earn = 100 * r.stars_spent
         /\ r.platform_earn = 100 * r.stars_spent
         /\ r.uploader_earn + r.viewer_earn + r.platform_earn = r.stars_spent * 500
         /\ r.uploader_earn * 20 = r.viewer_earn * 60
         /\ r.viewer_earn = r.platform_earn
  /\ \A r \in BagToSet(view_transactions) :
       r.star_price \in 1..5 =>
         /\ r.uploader_amount = 300 * r.star_price
         /\ r.viewer_amount = 100 * r.star_price
         /\ r.platform_amount = 100 * r.star_price
         /\ r.uploader_amount + r.viewer_amount + r.platform_amount
              = r.star_price * 500
         /\ r.uploader_amount * 20 = r.viewer_amount * 60
         /\ r.viewer_amount = r.platform_amount

\* a story charged at the top price, with its transaction row, and (in another
\* state) a charged post view next to a charged story view
ConservationWitness ==
  \/ \E r \in BagToSet(story_transactions) : r.stars_spent = MaxStarPrice
  \/ /\ story_transactions # EmptyBag
     /\ view_transactions # EmptyBag

\* C5: Free/self-view never charges.  A call of process_story_view (text or
\* uuid) on a story whose price is 0 or whose owner is the viewer changes no
\* star_balance and no wallet_balance and inserts no story_transactions row.
FreeSelfViewNeverCharges ==
  \A t \in Sessions :
    ( /\ Done(t) /\ tx[t].proc \in {"story_text", "story_uuid"}
      /\ \/ star_price[tx[t].p_id] = 0
         \/ story_owner[tx[t].p_id] = tx[t].p_viewer_id )
    => /\ tx[t].writes.star = NoDelta
       /\ tx[t].writes.wallet = NoDelta
       /\ tx[t].writes.txns = EmptyBag

\* C6: Insufficient balance blocks.  A call of process_story_view (text or
\* uuid) that reads a star_balance lower than the price returns success =
\* false with 'Insufficient stars' and writes nothing: no balance, no View
\* Record, no Ledger Transaction, no view counter.
InsufficientBalanceBlocks ==
  \A t \in Sessions :
    ( /\ Done(t) /\ tx[t].proc \in {"story_text", "story_uuid"}
      /\ ReadBalance(t)
      /\ tx[t].v_viewer_stars < star_price[tx[t].p_id] )
    => /\ tx[t].result = [success |-> FALSE, error |-> "Insufficient stars"]
       /\ tx[t].writes = NoWrites

\* a non-owner was refused a priced story for lack of stars
InsufficientWitness ==
  \E t \in Sessions :
    /\ Done(t) /\ tx[t].proc \in {"story_text", "story_uuid"}
    /\ PricedThirdParty(t) /\ ~tx[t].had_view
    /\ tx[t].v_viewer_stars < star_price[tx[t].p_id]
    /\ tx[t].result = [success |-> FALSE, error |-> "Insufficient stars"]

\* C7: Effect of a charged view.  A successful call of process_story_view
\* (text or bigint) on a story of price p by a non-owner that read a balance
\* >= p takes p stars from the viewer and from nobody else, adds 300p to the
\* owner's wallet and 100p to the viewer's, inserts one View Record with
\* stars_spent = p and one Ledger Transaction (300p, 100p, 100p), and returns
\* charged = true with viewer_earn = 100p.
ChargedViewEffect ==
  \A t \in Sessions :
    ( /\ Done(t) /\ tx[t].proc \in {"story_text", "story_bigint"}
      /\ PricedThirdParty(t) /\ ReadBalance(t)
      /\ tx[t].v_viewer_stars >= star_price[tx[t].p_id]
      /\ Has(tx[t].result, "success") /\ tx[t].result.success )
    => LET s == tx[t].p_id
           v == tx[t].p_viewer_id
           o == story_owner[s]
           p == star_price[s]
           w == tx[t].writes
       IN /\ w.star = [a \in Accounts |-> IF a = v THEN 0 - p ELSE 0]
          /\ w.wallet = [a \in Accounts |->
                           IF a = o THEN 300 * p ELSE IF a = v THEN 100 * p ELSE 0]
          /\ w.views = {[story_id |-> s, viewer_id |-> v, stars_spent |-> p]}
          /\ w.txns = One([story_id |-> s, uploader_id |-> o, viewer_id |-> v,
                           stars_spent |-> p, uploader_earn |-> 300 * p,
                           viewer_earn |-> 100 * p, platform_earn |-> 100 * p])
          /\ Has(tx[t].result, "charged") /\ tx[t].result.charged
          /\ tx[t].result.viewer_earn = 100 * p

SuspendedStoryUnavailable ==
  \A t \in Sessions :
    ( /\ Done(t) /\ tx[t].proc \in {"story_text", "story_bigint"}
      /\ ~tx[t].was_active )
    => /\ Has(tx[t].result, "success") /\ ~tx[t].result.success
       /\ tx[t].writes = NoWrites

\* C10: Already-viewed fast path.  A call of process_story_view (text or uuid)
\* that finds the story active and began when the View Record of its pair
\* existed returns success and writes nothing, whatever the viewer's balance.
AlreadyViewedNoEffect ==
  \A t \in Sessions :
    ( /\ Done(t) /\ tx[t].proc \in {"story_text", "story_uuid"}
      /\ tx[t].had_view /\ ~StoryNotFound(t) )
    => /\ Has(tx[t].result, "success") /\ tx[t].result.success
       /\ tx[t].writes = NoWrites

\* the fast path was taken by a viewer who can no longer afford the story
AlreadyViewedWitness ==
  \E t \in Sessions :
    /\ Done(t) /\ tx[t].proc \in {"story_text", "story_uuid"}
    /\ tx[t].had_view /\ tx[t].v_view_exists
    /\ PricedThirdParty(t)
    /\ star_balance[tx[t].p_viewer_id] < star_price[tx[t].p_id]
    /\ Has(tx[t].result, "success") /\ tx[t].result.success
    /\ tx[t].writes = NoWrites

\* C11: Repeat post views never re-charge.  Of two process_post_view calls on
\* the same approved priced post by the same non-owner, the second begun after
\* the first had ended with a charge: the second takes no star and writes
\* nothing (no balance, no wallet_history, no view_transactions row), and where
\* its result carries charged, charged is false.
RepeatPostViewNeverRecharges ==
  \A t, u \in Sessions :
    ( /\ t # u /\ Done(t) /\ Done(u)
      /\ tx[t].proc = "post" /\ SamePair(t, u) /\ Before(t, u)
      /\ Has(tx[t].result, "charged") /\ tx[t].result.charged )
    => /\ tx[u].writes = NoWrites
       /\ Has(tx[u].result, "charged") => ~tx[u].result.charged

\* C12: Viewed is terminal.  In every step, by a call of process_story_view
\* (text or uuid), a suspension or an unsuspension, each story_views row stays
\* in the table, stays the only row of its (story, viewer) pair, so with the
\* same stars_spent, and the pair gets no further story_transactions row: it
\* is not charged again.
ViewedIsTerminal ==
  [][\A r \in story_views :
       /\ r \in story_views'
       /\ \A q \in story_views' :
            (q.story_id = r.story_id /\ q.viewer_id = r.viewer_id) => q = r
       /\ TxnCount(r.story_id, r.viewer_id)' = TxnCount(r.story_id, r.viewer_id)
    ]_vars

\* a charged View Record that has outlived a later call on its pair and a
\* suspension of its story
ViewedOutlivesSuspension ==
  \E r \in story_views :
    /\ r.stars_spent > 0
    /\ story_status[r.story_id] = "suspended"
    /\ \E t \in Sessions :
         /\ Done(t) /\ tx[t].had_view
         /\ tx[t].p_id = r.story_id /\ tx[t].p_viewer_id = r.viewer_id

\* C13: Errors are values.  Every call of process_story_view (text or uuid)
\* that has ended returned an outcome object with a success field; none ended
\* in a database exception.
ErrorsAreValues ==
  \A t \in Sessions :
    (Done(t) /\ tx[t].proc \in {"story_text", "story_uuid"})
    => /\ ~Has(tx[t].result, "exception")
       /\ Has(tx[t].result, "success")

\* what process_story_view(text) returns for the call of t when it runs with
\* no other call in progress, from the balances the accounts started with and
\* with no View Record of its pair
SoloOutcome(t) ==
  LET s == tx[t].p_id
      v == tx[t].p_viewer_id
  IN IF FreeOrOwn(star_price[s], story_owner[s], v)
       THEN [success |-> TRUE, viewer_earn |-> 0, charged |-> FALSE]
       ELSE IF InsufficientStars(InitStars[v], star_price[s])
         THEN [success |-> FALSE, error |-> "Insufficient stars"]
         ELSE [success |-> TRUE, viewer_earn |-> ViewerShare(star_price[s]),
               charged |-> TRUE]

\* C14: Different pairs are independent.  When the only two calls are
\* overlapping calls of process_story_view(text) by two different viewers on
\* two different stories, with no suspension, each returns what it returns
\* when run alone (which, the viewers being different, is what it returns in
\* either sequential order), and each viewer has paid exactly what that
\* outcome says.
DifferentPairsIndependent ==
  \A t, u \in Sessions :
    ( /\ t # u /\ Done(t) /\ Done(u)
      /\ tx[t].proc = "story_text" /\ tx[u].proc = "story_text"
      /\ tx[t].p_id # tx[u].p_id
      /\ tx[t].p_viewer_id # tx[u].p_viewer_id
      /\ ~Before(t, u) /\ ~Before(u, t)
      /\ ncalls = Cardinality({t, u}) /\ nmods = 0 )
    => /\ tx[t].result = SoloOutcome(t)
       /\ star_balance[tx[t].p_viewer_id]
            = InitStars[tx[t].p_viewer_id]
              - (IF SoloOutcome(t).success /\ SoloOutcome(t).charged
                   THEN star_price[tx[t].p_id] ELSE 0)

\* C15: A View Record proves payment.  Every story_views row of a priced
\* story whose viewer is not the owner has a story_transactions row of its
\* (story, viewer) pair, and every call of process_story_view(text)
\* that returned success to such a viewer leaves the pair with one: the viewer
\* was charged.
ViewRecordProvesPayment ==
  /\ \A r \in story_views :
       (star_price[r.story_id] > 0 /\ story_owner[r.story_id] # r.viewer_id)
       => TxnCount(r.story_id, r.viewer_id) >= 1
  /\ \A t \in Sessions :
       ( /\ Done(t) /\ tx[t].proc = "story_text"
         /\ PricedThirdParty(t)
         /\ Has(tx[t].result, "success") /\ tx[t].result.success )
       => TxnCount(tx[t].p_id, tx[t].p_viewer_id) >= 1

\* C16: Balances have a single writer.  No step a client takes on
\* user_profiles outside the procedures (the ProfileSetup upsert, the
\* EditProfile update, the Chat presence update, any other update of its own
\* row) changes a star_balance or a wallet_balance.
BalancesSingleWriter ==
  [][star_balance' = star_balance /\ wallet_balance' = wallet_balance]_vars

\* C17: Free/self path records the view.  After a successful call of
\* process_story_view (text or uuid) that began with no View Record of its
\* pair, on a story that is free or the viewer's own, story_views holds the
\* row of the pair with stars_spent = 0, and no other row of the pair.
FreeSelfPathRecordsView ==
  \A t \in Sessions :
    ( /\ Done(t) /\ tx[t].proc \in {"story_text", "story_uuid"}
      /\ ~tx[t].had_view
      /\ Has(tx[t].result, "success") /\ tx[t].result.success
      /\ \/ star_price[tx[t].p_id] = 0
         \/ story_owner[tx[t].p_id] = tx[t].p_viewer_id )
    => {r \in story_views : /\ r.story_id = tx[t].p_id
                            /\ r.viewer_id = tx[t].p_viewer_id}
         = {[story_id |-> tx[t].p_id, viewer_id |-> tx[t].p_viewer_id,
             stars_spent |-> 0]}

\* C18: Notifications are best-effort.  A call of process_story_view(uuid)
\* by a non-owner on a priced story that had deducted the stars, credited the wallets and inserted the View
\* Record and the Ledger Transaction, and ended at its notification inserts,
\* returned success, and its deduction, credits and rows are committed.
NotificationsBestEffort ==
  \A t \in Sessions :
    ( /\ Done(t) /\ tx[t].proc = "story_uuid" /\ tx[t].from = "notify"
      /\ PricedThirdParty(t)
      /\ ~Has(tx[t].result, "exception")
         \/ tx[t].result.exception = "notification_failed" )
    => /\ Has(tx[t].result, "success") /\ tx[t].result.success
       /\ tx[t].writes.star[tx[t].p_viewer_id] = 0 - tx[t].v_price
       /\ ViewCount(tx[t].p_id, tx[t].p_viewer_id) = 1
       /\ TxnCount(tx[t].p_id, tx[t].p_viewer_id) = 1

\* C19: View counter.  Every call of process_story_view (text or uuid) that
\* charged has incremented the story's view_count by one in its transaction,
\* a call that found the View Record has not incremented it, and the
\* view_count of every story is at least the number of its story_views rows
\* with stars_spent > 0.
ViewCounter ==
  /\ \A t \in Sessions :
       (Done(t) /\ tx[t].proc \in {"story_text", "story_uuid"})
       => /\ tx[t].writes.txns # EmptyBag => tx[t].writes.vcount[tx[t].p_id] = 1
          /\ tx[t].v_view_exists =>
               tx[t].writes.vcount = [s \in Stories |-> 0]
  /\ \A s \in Stories :
       view_count[s] >=
         Cardinality({r \in story_views : r.story_id = s /\ r.stars_spent > 0})

\* C20: Platform share is credited to nobody.  A successful charging call of
\* process_story_view (text or bigint) of price p changes the star_balance of
\* the viewer alone (-p) and the wallet_balance of the owner (+300p) and the
\* viewer (+100p) alone; the wallets gain p * 500 less the platform share in
\* all.
PlatformShareUncredited ==
  \A t \in Sessions :
    ( /\ Done(t) /\ tx[t].proc \in {"story_text", "story_bigint"}
      /\ PricedThirdParty(t) /\ ReadBalance(t)
      /\ tx[t].v_viewer_stars >= star_price[tx[t].p_id]
      /\ Has(tx[t].result, "success") /\ tx[t].result.success )
    => LET v == tx[t].p_viewer_id
           o == story_owner[tx[t].p_id]
           p == star_price[tx[t].p_id]
           w == tx[t].writes
       IN /\ \A a \in Accounts : w.star[a] = IF a = v THEN 0 - p ELSE 0
          /\ \A a \in Accounts \ {o, v} : w.wallet[a] = 0
          /\ w.wallet[o] = UploaderShare(p)
          /\ w.wallet[v] = ViewerShare(p)
          /\ w.wallet[o] + w.wallet[v] = p * star_value - PlatformShare(p)

\* C21: No deadlock between concurrent charges.  No two calls of
\* process_story_view(text) or process_post_view ever wait for each other's
\* row locks, and none of them ends aborted by the store to break a lock cycle.
NoDeadlockBetweenCharges ==
  /\ \A t, u \in Sessions :
       (tx[t].proc \in {"story_text", "post"} /\ tx[u].proc \in {"story_text", "post"})
       => ~(WaitsFor(t, u) /\ WaitsFor(u, t))
  /\ \A t \in Sessions :
       (Done(t) /\ tx[t].proc \in {"story_text", "post"})
       => tx[t].result # [exception |-> "deadlock_detected"]

\* the stars the procedures have taken from the star_balance of account a: a
\* NULL balance stays NULL, nothing is taken from it
StarsRemoved(a) ==
  IF a \in star_null THEN 0 ELSE InitStars[a] - star_balance[a]

\* C22: Stars match the ledger.  For every account, the stars the procedures
\* have removed from its star_balance equal the sum of stars_spent over the
\* story_transactions rows in which it is the viewer, a viewer whose
\* star_balance is NULL included.
StarsMatchLedger ==
  \A a \in Accounts : StarsRemoved(a) = StarsCharged(a)

\* the sum of the amounts of the wallet_history rows of account a
WalletHistorySum(a) ==
  LET rows == {r \in BagToSet(wallet_history) : r.user_id = a}
  IN Weigh(wallet_history, rows, [r \in rows |-> r.amount])

\* C23: wallet_history records the NGN amounts.  In every state, the
\* wallet_balance the procedures have credited to an account equals the sum of
\* the amounts of that account's wallet_history rows.
WalletHistoryRecordsCredits ==
  \A a \in Accounts : wallet_balance[a] = WalletHistorySum(a)

\* auth.uid() of the signed-in user whose connection the session is
SessionUser == [t \in Sessions |-> IF t = "t1" THEN "a1" ELSE "a2"]

\* C24: Only the viewer can spend the viewer's stars.  A finished call of
\* process_story_view(text) or process_post_view made by the signed-in user a
\* has taken stars from no account other than a.
OnlyViewerSpendsOwnStars ==
  \A t \in Sessions :
    (Done(t) /\ tx[t].proc \in {"story_text", "post"})
    => \A a \in Accounts \ {SessionUser[t]} : tx[t].writes.star[a] >= 0

\* ------------------------------------------------- CreateStoryline (App.tsx)
\* a star_price column value: {} is NULL, {n} is the integer n
PriceInputs == {{}} \cup {{n} : n \in (0 - 1)..(MaxStarPrice + 1)}

\* CHECK (star_price >= 0 AND star_price <= 5): the row is rejected when the
\* condition is false; on NULL the condition is unknown and the row passes
StarPriceCheck(v) == \A n \in v : n >= 0 /\ n <= MaxStarPrice

\* the rows user_storylines can hold
StorylineRows == [user_id : Accounts, star_price : PriceInputs]

\* supabase.from('user_storylines').insert({user_id, ..., star_price})
InsertStoryline(u, v) ==
  /\ Cardinality(user_storylines) < MaxStorylines
  /\ StarPriceCheck(v)
  /\ user_storylines' = user_storylines \cup {[user_id |-> u, star_price |-> v]}
  /\ UNCHANGED <<ledger, starPrice, payments, createPost, feed, media, likes, presence>>

\* supabase.from('user_storylines').update({star_price}) on one's own row
UpdateStoryline(r, v) ==
  /\ r \in user_storylines
  /\ StarPriceCheck(v)
  /\ user_storylines' = (user_storylines \ {r}) \cup {[r EXCEPT !.star_price = v]}
  /\ UNCHANGED <<ledger, starPrice, payments, createPost, feed, media, likes, presence>>

\* the buttons Free, 1, 2, 3, 4, 5: onClick={() => setStarPrice(stars)}
setStarPrice(stars) ==
  /\ starPrice' = stars
  /\ UNCHANGED <<ledger, user_storylines, payments, createPost, feed, media, likes, presence>>

\* CreateStoryline.handleSubmit of App.tsx: insert with star_price: starPrice,
\* then setStarPrice(0); a failed insert leaves the form as it is
CreateStorylineSubmit(u) ==
  /\ Cardinality(user_storylines) < MaxStorylines
  /\ StarPriceCheck({starPrice})
  /\ user_storylines' = user_storylines \cup
       {[user_id |-> u, star_price |-> {starPrice}]}
  /\ starPrice' = 0
  /\ UNCHANGED <<ledger, payments, createPost, feed, media, likes, presence>>

\* CreateStoryline.handleSubmit of components/Storyline: insert of {user_id,
\* media_url}, star_price takes its DEFAULT 0
LegacyCreateStorylineSubmit(u) ==
  /\ Cardinality(user_storylines) < MaxStorylines
  /\ user_storylines' = user_storylines \cup {[user_id |-> u, star_price |-> {0}]}
  /\ UNCHANGED <<ledger, starPrice, payments, createPost, feed, media, likes, presence>>

InitStorylines == Init /\ star_price["s1"] = 0

NextStorylines ==
  \/ \E stars \in 0..MaxStarPrice : setStarPrice(stars)
  \/ \E u \in Accounts : CreateStorylineSubmit(u)
  \/ \E u \in Accounts : LegacyCreateStorylineSubmit(u)
  \/ \E u \in Accounts, v \in PriceInputs : InsertStoryline(u, v)
  \/ \E r \in StorylineRows, v \in PriceInputs : UpdateStoryline(r, v)

SpecStorylines == InitStorylines /\ [][NextStorylines]_vars

\* C25: Star price stays in range.  Every user_storylines row has a star_price
\* that is one of 0, 1, 2, 3, 4, 5, whatever clients insert or update.
StarPriceInRange ==
  \A r \in user_storylines : \E n \in 0..MaxStarPrice : r.star_price = {n}

\* ------------------------------------------------------- payment_requests
\* CHECK (status IN ('pending', 'paid', 'rejected'))
RequestStatus == {"pending", "paid", "rejected"}

\* "Users can create payment requests": FOR INSERT WITH CHECK (user_id = auth.uid())
UsersCanCreatePaymentRequests(cmd, uid, row) ==
  cmd = "INSERT" /\ row.user_id = uid

\* "Users can view own payment requests": FOR SELECT USING (user_id = auth.uid())
UsersCanViewOwnPaymentRequests(cmd, uid, row) ==
  cmd = "SELECT" /\ row.user_id = uid

\* "Admins can manage payment requests": FOR ALL USING (true)
AdminsCanManagePaymentRequests(cmd, uid, row) == TRUE

\* row level security: the policies are permissive, a command passes when one
\* of the policies for it does
PaymentRequestPermitted(cmd, uid, row) ==
  \/ UsersCanCreatePaymentRequests(cmd, uid, row)
  \/ UsersCanViewOwnPaymentRequests(cmd, uid, row)
  \/ AdminsCanManagePaymentRequests(cmd, uid, row)

Granted(cmd, uid, row) ==
  pr_access' = {[cmd |-> cmd, by |-> uid, owner |-> row.user_id]}

\* insert({user_id, amount, payment_method, account_info}) by the user uid
InsertPaymentRequest(uid, owner) ==
  LET row == [user_id |-> owner, status |-> "pending"]
  IN /\ Cardinality(payment_requests) < MaxRequests
     /\ PaymentRequestPermitted("INSERT", uid, row)
     /\ payment_requests' = payment_requests \cup {row}
     /\ Granted("INSERT", uid, row)
     /\ UNCHANGED <<ledger, storyForm, createPost, feed, media, likes, presence>>

\* select('*') by the user uid returns the row
SelectPaymentRequest(uid, row) ==
  /\ row \in payment_requests
  /\ PaymentRequestPermitted("SELECT", uid, row)
  /\ Granted("SELECT", uid, row)
  /\ UNCHANGED <<ledger, storyForm, payment_requests, createPost, feed, media, likes, presence>>

\* update({status}) by the user uid reaches the row
UpdatePaymentRequest(uid, row, status) ==
  /\ row \in payment_requests
  /\ PaymentRequestPermitted("UPDATE", uid, row)
  /\ payment_requests' = (payment_requests \ {row}) \cup
                           {[row EXCEPT !.status = status]}
  /\ Granted("UPDATE", uid, row)
  /\ UNCHANGED <<ledger, storyForm, createPost, feed, media, likes, presence>>

\* delete() by the user uid reaches the row
DeletePaymentRequest(uid, row) ==
  /\ row \in payment_requests
  /\ PaymentRequestPermitted("DELETE", uid, row)
  /\ payment_requests' = payment_requests \ {row}
  /\ Granted("DELETE", uid, row)
  /\ UNCHANGED <<ledger, storyForm, createPost, feed, media, likes, presence>>

PaymentRows == [user_id : Accounts, status : RequestStatus]

InitPayments == Init /\ star_price["s1"] = 0

NextPayments ==
  \/ \E uid, owner \in Accounts : InsertPaymentRequest(uid, owner)
  \/ \E uid \in Accounts, row \in PaymentRows : SelectPaymentRequest(uid, row)
  \/ \E uid \in Accounts, row \in PaymentRows, status \in RequestStatus :
       UpdatePaymentRequest(uid, row, status)
  \/ \E uid \in Accounts, row \in PaymentRows : DeletePaymentRequest(uid, row)

SpecPayments == InitPayments /\ [][NextPayments]_vars

\* C26: Payment requests are private to their owner.  A read, update or
\* delete of a payment_requests row that the policies let through was made by
\* the user the row belongs to (no account is an admin).
PaymentRequestsPrivate ==
  \A g \in pr_access :
    g.cmd \in {"SELECT", "UPDATE", "DELETE"} => g.by = g.owner

\* ------------------------------------------------ CreatePost and the Feed
\* the signed-in user of the CreatePost dialog
Author == "a1"

\* user_profiles.vip BOOLEAN DEFAULT false, nullable
VipValues == {"true", "false", "null"}

PostStatusAlwaysApproved(profile_vip) == "approved"

\* status: profile?.vip ? 'approved' : 'pending'
PostStatusFor(profile_vip) ==
  IF profile_vip = "true" THEN "approved" ELSE "pending"

\* supabase.from('user_profiles').update({vip}) on the author's row, by the
\* author under "Users can update their own profile" or by whoever grants VIP
SetVip(v) ==
  /\ vip' = v
  /\ UNCHANGED <<ledger, storyForm, payments, posts_table, submit, feed, media, likes, presence>>

\* handleSubmit up to its first await: the fields are filled in, setLoading,
\* uploadMedia
handleSubmit ==
  /\ submit.pc = "idle"
  /\ Cardinality(posts_table) < MaxPosts
  /\ submit' = [pc |-> "select", profile_vip |-> "null"]
  /\ UNCHANGED <<ledger, storyForm, payments, vip, posts_table, feed, media, likes, presence>>

\* select('vip').eq('id', user.id).single() answers
handleSubmitSelectVip ==
  /\ submit.pc = "select"
  /\ submit' = [pc |-> "insert", profile_vip |-> vip]
  /\ UNCHANGED <<ledger, storyForm, payments, vip, posts_table, feed, media, likes, presence>>

\* insert into posts answers; the form is reset and onPostCreated (the Feed's
\* fetchPosts) is called; an approved row is published to the subscribers of
\* INSERT on posts with status=eq.approved.  vip_read is not a column: it
\* remembers the vip value handleSubmit read
handleSubmitInsert ==
  /\ submit.pc = "insert"
  /\ LET status == PostStatusFor(submit.profile_vip)
         row == [id |-> Cardinality(posts_table) + 1, user_id |-> Author,
                 status |-> status, vip_read |-> submit.profile_vip]
     IN /\ posts_table' = posts_table \cup {row}
        /\ post_events' = IF status = "approved"
                            THEN post_events \cup {row.id} ELSE post_events
  /\ submit' = [pc |-> "idle", profile_vip |-> "null"]
  /\ fetch_calls' = fetch_calls + 1
  /\ UNCHANGED <<ledger, storyForm, payments, vip, posts, fetches, media, likes, presence>>

\* the realtime handler of INSERT on posts: () => { fetchPosts(); }
RealtimePostInsert(id) ==
  /\ id \in post_events
  /\ post_events' = post_events \ {id}
  /\ fetch_calls' = fetch_calls + 1
  /\ UNCHANGED <<ledger, storyForm, payments, createPost, posts, fetches, media, likes, presence>>

\* from('posts').select('*').eq('status', 'approved')
fetchPostsRows ==
  {[id |-> r.id, status |-> r.status] :
     r \in {x \in posts_table : x.status = "approved"}}

\* the store answers one fetchPosts call with the rows it has now
fetchPostsQuery ==
  /\ fetch_calls > 0
  /\ fetch_calls' = fetch_calls - 1
  /\ fetches' = fetches \cup {fetchPostsRows}
  /\ UNCHANGED <<ledger, storyForm, payments, createPost, posts, post_events, media, likes, presence>>

\* the answer arrives: setPosts(postsData)
fetchPostsApply(postsData) ==
  /\ postsData \in fetches
  /\ fetches' = fetches \ {postsData}
  /\ posts' = postsData
  /\ UNCHANGED <<ledger, storyForm, payments, createPost, fetch_calls,
                 post_events, media, likes, presence>>

InitFeed == Init /\ star_price["s1"] = 0

NextFeed ==
  \/ \E v \in VipValues : SetVip(v)
  \/ handleSubmit
  \/ handleSubmitSelectVip
  \/ handleSubmitInsert
  \/ \E id \in 1..MaxPosts : RealtimePostInsert(id)
  \/ fetchPostsQuery
  \/ \E postsData \in SUBSET [id : 1..MaxPosts, status : {"approved", "pending"}] :
       fetchPostsApply(postsData)

SpecFeed == InitFeed /\ [][NextFeed]_vars

Files == {"image", "video", "huge_image", "pdf"}

\* file.size <= maxSize, and file.type starts with 'image/' or 'video/'
ValidFile(file) == file \in {"image", "video"}

RECURSIVE Filter(_)
\* files.filter(file => ...)
Filter(files) ==
  IF files = << >> THEN << >>
  ELSE IF ValidFile(Head(files)) THEN <<Head(files)>> \o Filter(Tail(files))
       ELSE Filter(Tail(files))

\* prev.filter((_, i) => i !== index), index counted from 0
WithoutIndex(prev, index) ==
  [i \in 1..(Len(prev) - (IF index < Len(prev) THEN 1 ELSE 0)) |->
     IF i <= index THEN prev[i] ELSE prev[i + 1]]

\* the selections of one change event: 1..MaxSelect files
Selections == UNION {[1..n -> Files] : n \in 1..MaxSelect}

\* React renders CreatePost: the handlers of this render see the mediaFiles
\* of this render
Render ==
  /\ rendered # mediaFiles
  /\ rendered' = mediaFiles
  /\ UNCHANGED <<ledger, storyForm, payments, createPost, feed, mediaFiles,
                 likes, presence>>

\* handleMediaChange of the last render: the test reads the mediaFiles that
\* render closed over, the update appends to the state as it is now
handleMediaChange(files) ==
  /\ Len(mediaFiles) < MaxHeld
  /\ LET validFiles == Filter(files)
     IN IF Len(validFiles) + Len(rendered) > 3
          THEN UNCHANGED mediaFiles
          ELSE mediaFiles' = mediaFiles \o validFiles
  /\ UNCHANGED <<ledger, storyForm, payments, createPost, feed, rendered,
                 likes, presence>>

\* removeMedia(index), from the X button of a preview of the last render
removeMedia(index) ==
  /\ index < Len(rendered)
  /\ mediaFiles' = WithoutIndex(mediaFiles, index)
  /\ UNCHANGED <<ledger, storyForm, payments, createPost, feed, rendered,
                 likes, presence>>

InitMedia == Init /\ star_price["s1"] = 0

NextMedia ==
  \/ Render
  \/ \E files \in Selections : handleMediaChange(files)
  \/ \E index \in 0..MaxHeld : removeMedia(index)

SpecMedia == InitMedia /\ [][NextMedia]_vars

\* C28: At most three media files per post.  After any sequence of
\* handleMediaChange and removeMedia events, two selections handled before the
\* component renders again included, mediaFiles holds at most 3 files.
AtMostThreeMediaFiles == Len(mediaFiles) <= 3

\* ---------------------------------------------------------- Feed: likes
\* The Feed of FeedUser shows the approved post p1; post_likes holds the
\* likes of p1.
FeedUser == "a1"

\* likesData of select('*') on post_likes, as a list in id order
RECURSIVE LikesData(_)
LikesData(rows) ==
  IF rows = {} THEN << >>
  ELSE LET first == CHOOSE r \in rows : \A q \in rows : r.id <= q.id
       IN <<first>> \o LikesData(rows \ {first})

\* the likes_count that select('*') on posts returns for p1: the column is
\* taken to be kept equal to the number of post_likes rows of the post
LikesCountColumn == Cardinality(post_likes)

\* insert({post_id, user_id}) on post_likes: UNIQUE(post_id, user_id) rejects
\* a second like of the same user; a committed insert is published
InsertLike(u) ==
  IF (\E r \in post_likes : r.user_id = u) \/ like_seq >= MaxLikes
    THEN UNCHANGED <<post_likes, like_seq, like_events>>
    ELSE LET row == [id |-> like_seq + 1, user_id |-> u]
         IN /\ post_likes' = post_likes \cup {row}
            /\ like_seq' = like_seq + 1
            /\ like_events' = Append(like_events, [event |-> "INSERT", row |-> row])

\* delete().eq('id', id) on post_likes: a deleted row is published
DeleteLike(id) ==
  LET gone == {r \in post_likes : r.id = id}
  IN /\ post_likes' = post_likes \ gone
     /\ like_seq' = like_seq
     /\ like_events' = IF gone = {} THEN like_events
                       ELSE Append(like_events,
                              [event |-> "DELETE", row |-> CHOOSE r \in gone : TRUE])

\* handleLike(p1) in the Feed of FeedUser
handleLike ==
  /\ LET mine == SelectSeq(postLikes, LAMBDA like : like.user_id = FeedUser)
     IN IF mine # << >> THEN DeleteLike(Head(mine).id) ELSE InsertLike(FeedUser)
  /\ like_events' # like_events
  /\ UNCHANGED <<ledger, storyForm, payments, createPost, feed, media,
                 postLikes, likes_count, like_fetch, like_fetches, presence>>

\* handleLike(p1) in the Feed of another user, whose list agrees with the
\* server: a like when the user has none, an unlike otherwise
OtherHandleLike(u) ==
  /\ u # FeedUser
  /\ IF \E r \in post_likes : r.user_id = u
       THEN DeleteLike((CHOOSE r \in post_likes : r.user_id = u).id)
       ELSE InsertLike(u)
  /\ like_events' # like_events
  /\ UNCHANGED <<ledger, storyForm, payments, createPost, feed, media,
                 postLikes, likes_count, like_fetch, like_fetches, presence>>

\* fetchPosts(): the query on posts
fetchSelectPosts ==
  /\ like_fetch.pc = "idle"
  /\ like_fetches < MaxFetches
  /\ like_fetches' = like_fetches + 1
  /\ like_fetch' = [pc |-> "posts", likes_count |-> LikesCountColumn,
                    likesData |-> << >>]
  /\ UNCHANGED <<ledger, storyForm, payments, createPost, feed, media,
                 post_likes, like_seq, postLikes, likes_count, like_events,
                 presence>>

\* fetchPosts(): the query on post_likes
fetchSelectLikes ==
  /\ like_fetch.pc = "posts"
  /\ like_fetch' = [like_fetch EXCEPT !.pc = "likes",
                                      !.likesData = LikesData(post_likes)]
  /\ UNCHANGED <<ledger, storyForm, payments, createPost, feed, media,
                 post_likes, like_seq, postLikes, likes_count, like_events,
                 like_fetches, presence>>

\* fetchPosts(): setPosts(postsData); setPostLikes(likesLookup)
fetchSetState ==
  /\ like_fetch.pc = "likes"
  /\ likes_count' = like_fetch.likes_count
  /\ postLikes' = like_fetch.likesData
  /\ like_fetch' = [pc |-> "idle", likes_count |-> 0, likesData |-> << >>]
  /\ UNCHANGED <<ledger, storyForm, payments, createPost, feed, media,
                 post_likes, like_seq, like_events, like_fetches, presence>>

\* the realtime handlers of post_likes, events delivered in commit order
RealtimeLike ==
  /\ like_events # << >>
  /\ LET payload == Head(like_events)
     IN IF payload.event = "INSERT"
          THEN /\ postLikes' = Append(postLikes, payload.row)
               /\ likes_count' = likes_count + 1
          ELSE /\ postLikes' = SelectSeq(postLikes,
                                 LAMBDA like : like.id # payload.row.id)
               /\ likes_count' = IF likes_count - 1 > 0 THEN likes_count - 1 ELSE 0
  /\ like_events' = Tail(like_events)
  /\ UNCHANGED <<ledger, storyForm, payments, createPost, feed, media,
                 post_likes, like_seq, like_fetch, like_fetches, presence>>

InitLikes == Init /\ star_price["s1"] = 0

NextLikes ==
  \/ handleLike
  \/ \E u \in Accounts : OtherHandleLike(u)
  \/ fetchSelectPosts
  \/ fetchSelectLikes
  \/ fetchSetState
  \/ RealtimeLike

SpecLikes == InitLikes /\ [][NextLikes]_vars

\* how many times the like row occurs in the local list
Occurrences(row) ==
  Cardinality({i \in 1..Len(postLikes) : postLikes[i] = row})

\* C29: Feed like state converges to the server.  Once every fetchPosts
\* response and every realtime post_likes event has been delivered, the local
\* postLikes list of the post contains every server-side like exactly once
\* and the displayed likes_count equals the number of server-side likes.
FeedLikesConverge ==
  (like_events = << >> /\ like_fetch.pc = "idle") =>
    /\ \A row \in post_likes : Occurrences(row) = 1
    /\ likes_count = Cardinality(post_likes)

\* --------------------------------------------------------- Chat: presence
ChatUser == "a1"

\* the Chat effect runs on mount: updateUserOnlineStatus(true) is issued and
\* not awaited
ChatMount ==
  /\ ~mounted
  /\ effects < MaxEffects
  /\ mounted' = TRUE
  /\ effects' = effects + 1
  /\ requests' = requests (+) One(TRUE)
  /\ UNCHANGED <<ledger, storyForm, payments, createPost, feed, media, likes>>

\* user or activeChannel changes: the cleanup of the last run issues
\* updateUserOnlineStatus(false), then the effect issues
\* updateUserOnlineStatus(true)
ChatEffectRerun ==
  /\ mounted
  /\ effects < MaxEffects
  /\ effects' = effects + 1
  /\ requests' = (requests (+) One(FALSE)) (+) One(TRUE)
  /\ UNCHANGED <<ledger, storyForm, payments, createPost, feed, media, likes,
                 mounted>>

\* the Chat screen unmounts: the cleanup issues updateUserOnlineStatus(false)
ChatUnmount ==
  /\ mounted
  /\ mounted' = FALSE
  /\ requests' = requests (+) One(FALSE)
  /\ UNCHANGED <<ledger, storyForm, payments, createPost, feed, media, likes,
                 effects>>

\* the store applies one of the requests in flight: the update of
\* {is_online, last_seen} of updateUserOnlineStatus
ApplyOnlineStatus(isOnline) ==
  /\ BagIn(isOnline, requests)
  /\ ~RowLocked(ChatUser)
  /\ is_online' = [is_online EXCEPT ![ChatUser] = isOnline]
  /\ requests' = requests (-) One(isOnline)
  /\ UNCHANGED <<db, story_status, star_price, post_views, post_status,
                 username, star_null, tx, ncalls, nmods, storyForm, payments,
                 createPost, feed, media, likes, mounted, effects>>

InitPresence == Init /\ star_price["s1"] = 0

NextPresence ==
  \/ ChatMount
  \/ ChatEffectRerun
  \/ ChatUnmount
  \/ \E isOnline \in BOOLEAN : ApplyOnlineStatus(isOnline)

SpecPresence == InitPresence /\ [][NextPresence]_vars

\* C30: Presence follows the Chat screen.  Once every updateUserOnlineStatus
\* request issued by the Chat effect and its cleanup has been applied, in
\* whatever order the store applied them, is_online of the user is true if
\* the Chat screen is mounted and false if it has been unmounted.
PresenceFollowsChat ==
  requests = EmptyBag => (is_online[ChatUser] <=> mounted)
====
